---- MODULE Spec2Model ----
(***************************************************************************)
(* A model of nsc_web_co2_streamlit.py: the browser sampler, the HTTP-only *)
(* sampler, the orchestrator that falls back from one to the other, the    *)
(* cache heuristic and the grading function.                               *)
(*                                                                         *)
(* Text (header values, URLs) is a sequence of one-character strings, so   *)
(* that lower(), split(), strip(), startswith(), the "in" test and int()   *)
(* are computed character by character as Python computes them.            *)
(***************************************************************************)
EXTENDS Integers, Sequences, FiniteSets, TLC

VARIABLES
    pc,             \* position of the run_measurements call
    browser,        \* "none" | "open" | "closed"  (p.chromium.launch / browser.close)
    context,        \* "none" | "open" | "closed"  (browser.new_context / context.close)
    pages,          \* pages[i]: page of visit i, "none" | "open" | "closed"
    trace,          \* the calls made so far to the browser engine and to requests.get(url)
    visit,          \* the visit measure_visit_playwright is serving (0: none)
    nresp,          \* responses observed so far in the current visit
    total_bytes,    \* measure_visit_playwright's accumulator
    spec_total,     \* the sum of the documented per-response lengths of the same visit
    visit_totals,   \* values returned by measure_visit_playwright so far
    pw_raised,      \* "no" or the step of run_measurements_playwright that raised
    html,           \* the document fetched by run_measurements_http (None before)
    resource_urls,  \* collect_resource_urls(url, html)
    pending,        \* resource URLs the for loop has not visited yet
    resources,      \* the resources list of run_measurements_http
    last_fetch,     \* where the last fetch_resource_metadata call saw an exception
    results,        \* what run_measurements returned (NoResult before, and on a raise)
    headers_in,     \* argument of should_refetch_on_return
    refetch_out,    \* its value ("unset" before the call)
    co2_rounded,    \* <<fv_co2_rounded, rv_co2_rounded>> in hundredths of a gram
    grades          \* <<fv_grade, rv_grade>> ("unset" before grading)

vars == <<pc, browser, context, pages, trace, visit, nresp, total_bytes, spec_total,
          visit_totals, pw_raised, html, resource_urls, pending, resources,
          last_fetch, results, headers_in, refetch_out,
          co2_rounded, grades>>

-----------------------------------------------------------------------------
(* Bounds of the model *)

\* responses observed in one browser visit
MaxResponses == 2
\* directives in one generated Cache-Control value
MaxDirectives == 2
\* largest rounded CO2 value graded, in hundredths of a gram
MaxHundredths == 170

-----------------------------------------------------------------------------
(* Python str operations on sequences of characters *)

Digits == {"0", "1", "2", "3", "4", "5", "6", "7", "8", "9"}

DigitVal(c) ==
    CASE c = "0" -> 0 [] c = "1" -> 1 [] c = "2" -> 2 [] c = "3" -> 3
      [] c = "4" -> 4 [] c = "5" -> 5 [] c = "6" -> 6 [] c = "7" -> 7
      [] c = "8" -> 8 [] c = "9" -> 9

\* str.lower() on the upper-case letters the inputs use
LowerChar(c) ==
    CASE c = "A" -> "a" [] c = "C" -> "c" [] c = "E" -> "e" [] c = "G" -> "g"
      [] c = "M" -> "m" [] c = "N" -> "n" [] c = "O" -> "o" [] c = "R" -> "r"
      [] c = "S" -> "s" [] c = "T" -> "t" [] c = "X" -> "x"
      [] OTHER -> c

Lower(s) == [i \in 1..Len(s) |-> LowerChar(s[i])]

\* s.startswith(p)
StartsWith(s, p) == Len(p) <= Len(s) /\ SubSeq(s, 1, Len(p)) = p

\* t in s  (substring test)
Contains(s, t) ==
    \E i \in 1..(Len(s) - Len(t) + 1) : SubSeq(s, i, i + Len(t) - 1) = t

\* s.strip()
RECURSIVE LStrip(_)
LStrip(s) == IF s # <<>> /\ Head(s) = " " THEN LStrip(Tail(s)) ELSE s

RECURSIVE RStrip(_)
RStrip(s) ==
    IF s # <<>> /\ s[Len(s)] = " " THEN RStrip(SubSeq(s, 1, Len(s) - 1)) ELSE s

Strip(s) == RStrip(LStrip(s))

\* index of the first occurrence of character c in s, 0 if there is none
RECURSIVE IndexFrom(_, _, _)
IndexFrom(s, c, i) ==
    IF i > Len(s) THEN 0 ELSE IF s[i] = c THEN i ELSE IndexFrom(s, c, i + 1)

\* s.split(c): the parts between the occurrences of c, empty parts kept
RECURSIVE Split(_, _)
Split(s, c) ==
    LET i == IndexFrom(s, c, 1)
    IN  IF i = 0 THEN <<s>>
        ELSE <<SubSeq(s, 1, i - 1)>> \o Split(SubSeq(s, i + 1, Len(s)), c)

\* s.split(c, 1): at most one split
SplitOnce(s, c) ==
    LET i == IndexFrom(s, c, 1)
    IN  IF i = 0 THEN <<s>> ELSE <<SubSeq(s, 1, i - 1), SubSeq(s, i + 1, Len(s))>>

RECURSIVE DigitsValue(_, _)
DigitsValue(s, acc) ==
    IF s = <<>> THEN acc ELSE DigitsValue(Tail(s), 10 * acc + DigitVal(Head(s)))

\* int(s): surrounding blanks and one sign are accepted, then digits only;
\* anything else is a ValueError (ok = FALSE)
ParseInt(s) ==
    LET t      == Strip(s)
        signed == t # <<>> /\ Head(t) \in {"+", "-"}
        body   == IF signed THEN Tail(t) ELSE t
        ok     == body # <<>> /\ \A i \in 1..Len(body) : body[i] \in Digits
    IN  [ok  |-> ok,
         val |-> IF ~ok THEN 0
                 ELSE IF signed /\ Head(t) = "-" THEN 0 - DigitsValue(body, 0)
                 ELSE DigitsValue(body, 0)]

\* dict.get(k, d)
Get(h, k, d) == IF k \in DOMAIN h THEN h[k] ELSE d

EmptyMap == [k \in {} |-> <<>>]

-----------------------------------------------------------------------------
(* Words of the header vocabulary *)

W_max_age         == <<"m", "a", "x", "-", "a", "g", "e">>
W_max_age_0       == W_max_age \o <<"=", "0">>
W_no_cache        == <<"n", "o", "-", "c", "a", "c", "h", "e">>
W_no_store        == <<"n", "o", "-", "s", "t", "o", "r", "e">>
W_must_revalidate == <<"m", "u", "s", "t", "-", "r", "e", "v", "a", "l", "i", "d", "a", "t", "e">>
W_public          == <<"p", "u", "b", "l", "i", "c">>

-----------------------------------------------------------------------------
(* Grading function *)

\* grade_from_co2 on the rounded value the UI passes, in hundredths of a gram:
\* round(x, 2) is the float nearest to k/100, the same float as the literal
\* the code compares with, so the comparisons are exact on k
\* grade_from_co2 with < for the first band
grade_from_co2_strict_lt(co2_g) ==
    IF co2_g < 20 THEN "A"
    ELSE IF co2_g <= 70 THEN "B"
    ELSE IF co2_g <= 110 THEN "C"
    ELSE IF co2_g <= 160 THEN "D"
    ELSE "F"

grade_from_co2(co2_g) ==
    IF co2_g <= 20 THEN "A"
    ELSE IF co2_g <= 70 THEN "B"
    ELSE IF co2_g <= 110 THEN "C"
    ELSE IF co2_g <= 160 THEN "D"
    ELSE "F"

-----------------------------------------------------------------------------
(* Cache heuristic of the HTTP-only sampler *)

None == [some |-> FALSE, val |-> 0]
Some(v) == [some |-> TRUE, val |-> v]

\* the for loop of _parse_max_age over the parts still to be looked at
RECURSIVE ParseMaxAgeParts(_)
ParseMaxAgeParts(parts) ==
    IF parts = <<>> THEN None
    ELSE LET part   == Strip(Head(parts))
             pieces == SplitOnce(part, "=")
         IN  IF StartsWith(part, W_max_age) /\ Len(pieces) = 2
             THEN (IF ParseInt(pieces[2]).ok THEN Some(ParseInt(pieces[2]).val) ELSE None)
             ELSE ParseMaxAgeParts(Tail(parts))

_parse_max_age(cache_control) == ParseMaxAgeParts(Split(cache_control, ","))

should_refetch_on_return(headers) ==
    LET cc     == Lower(Get(headers, "cache-control", <<>>))
        pragma == Lower(Get(headers, "pragma", <<>>))
        max_age == _parse_max_age(cc)
    IN  IF (\E token \in {W_no_cache, W_no_store, W_must_revalidate} : Contains(cc, token))
           \/ Contains(cc, W_max_age_0)
        THEN TRUE
        ELSE IF Contains(pragma, W_no_cache) THEN TRUE
        ELSE IF cc # <<>>
             THEN (IF max_age.some
                   THEN (IF max_age.val >= 86400 THEN FALSE ELSE TRUE)
                   ELSE TRUE)
        ELSE TRUE

-----------------------------------------------------------------------------
(* Inputs of the cache heuristic *)

\* one Cache-Control directive, as a server may send it
Directives ==
    { W_max_age \o <<"=", "6", "0", "4", "8", "0", "0">>, W_max_age \o <<"=", "6", "0">>, W_max_age \o <<"=", "8", "6", "4", "0", "0">>,
      W_max_age \o <<"=", "8", "6", "3", "9", "9">>, W_max_age_0, W_max_age \o <<"=", "a", "b", "c">>, W_max_age,
      W_max_age \o <<"x">> \o <<"=", "6", "0", "4", "8", "0", "0">>, <<"M", "a", "x", "-", "A", "g", "e">> \o <<"=", "6", "0", "4", "8", "0", "0">>,
      W_no_store, <<"N", "o", "-", "C", "a", "c", "h", "e">>, W_must_revalidate,
      W_public, <<"s", "-", "m", "a", "x", "a", "g", "e">> \o <<"=", "6", "0", "4", "8", "0", "0">> }

\* ", ".join of n directives
RECURSIVE Joined(_)
Joined(n) ==
    IF n = 0 THEN {<<>>}
    ELSE IF n = 1 THEN Directives
    ELSE {a \o <<",", " ">> \o b : a \in Joined(n - 1), b \in Directives}

CacheControlValues == UNION {Joined(n) : n \in 0..MaxDirectives}

PragmaValues == {W_no_cache, W_public}

\* header maps given to should_refetch_on_return (names already lower-cased):
\* with or without cache-control, with or without pragma
HeaderInputs ==
    {EmptyMap}
    \cup {("cache-control" :> c) : c \in CacheControlValues}
    \cup {("pragma" :> p) : p \in PragmaValues}
    \cup {("cache-control" :> c) @@ ("pragma" :> p) :
             c \in CacheControlValues, p \in PragmaValues}

-----------------------------------------------------------------------------
(* HTTP-only sampler: the environment *)

\* an absolute URL
Url(host, path) == [host |-> host, path |-> path]

\* the page measured
PageUrl == Url("site", "/")

\* attribute values of the document: a reference with host "" is relative,
\* one with an empty path as well is the empty string
RelA     == Url("", "/a.js")
AbsA     == Url("site", "/a.js")
AbsB     == Url("cdn", "/b.css")
RelSelf  == Url("", "/")
RelC     == Url("", "/c.html")
EmptyRef == Url("", "")
\* a malformed reference such as "http://[": urljoin raises ValueError on it
BadRef   == Url("[", "")

Element(tag, attrs) == [tag |-> tag, attrs |-> attrs]

\* documents the initial GET may return, as the sequence of their elements
Documents ==
    { <<>>,
      << Element("img", "src" :> RelA), Element("script", "src" :> AbsA) >>,
      << Element("link", "href" :> AbsB), Element("a", "href" :> RelC),
         Element("link", "href" :> RelSelf) >>,
      << Element("img", "src" :> EmptyRef), Element("link", "rel" :> RelC),
         Element("source", "src" :> AbsB), Element("video", "src" :> RelA) >>,
      << Element("video", "poster" :> RelC), Element("script", "src" :> RelA),
         Element("img", "src" :> AbsB), Element("img", "src" :> RelA) >>,
      << Element("a", "href" :> BadRef), Element("img", "src" :> RelA) >>,
      << Element("img", "src" :> RelA), Element("script", "src" :> BadRef) >> }

\* Content-Length and Cache-Control values a server sends
ContentLengthValues == {<<"1", "5">>, <<"-", "5">>, <<"x">>}
HttpCacheControlValues == {W_max_age \o <<"=", "6", "0", "4", "8", "0", "0">>, W_no_store}

\* response headers as sent: each of the two headers present or absent
ServerHeaders ==
    {EmptyMap}
    \cup {("Content-Length" :> l) : l \in ContentLengthValues}
    \cup {("Cache-Control" :> c) : c \in HttpCacheControlValues}
    \cup {("Content-Length" :> l) @@ ("Cache-Control" :> c) :
             l \in ContentLengthValues, c \in HttpCacheControlValues}

\* a body read: it fails, or gives this many bytes
BodyFails == [ok |-> FALSE, len |-> 0]
Body(n) == [ok |-> TRUE, len |-> n]
Bodies == {BodyFails, Body(0), Body(3)}

\* the outcome of one request: an exception, or a response
RequestFails == [ok |-> FALSE, headers |-> EmptyMap, body |-> BodyFails]
Responses(bodies) ==
    {RequestFails}
    \cup {[ok |-> TRUE, headers |-> h, body |-> b] : h \in ServerHeaders, b \in bodies}

\* how the server answers the HEAD and the GET for one resource
ServerBehaviours ==
    {[head |-> hd, get |-> gt] : hd \in Responses({BodyFails}), gt \in Responses(Bodies)}

-----------------------------------------------------------------------------
(* HTTP-only sampler: the code *)

\* urljoin(base_url, src) raises ValueError
urljoin_raises(src) == src = BadRef

\* urljoin(base_url, src)
urljoin(base, src) ==
    [host |-> IF src.host = "" THEN base.host ELSE src.host, path |-> src.path]

tag_attr_pairs ==
    << <<"img", "src">>, <<"script", "src">>, <<"link", "href">>,
       <<"video", "src">>, <<"source", "src">> >>

\* the src values the two nested loops of collect_resource_urls pass to
\* urljoin: el.get(attr) of the elements of each pair's tag, unless it is
\* None or empty
CollectedRefs(markup) ==
    { markup[q[2]].attrs[tag_attr_pairs[q[1]][2]] :
        q \in { r \in (DOMAIN tag_attr_pairs) \X (DOMAIN markup) :
                  /\ markup[r[2]].tag = tag_attr_pairs[r[1]][1]
                  /\ tag_attr_pairs[r[1]][2] \in DOMAIN markup[r[2]].attrs
                  /\ markup[r[2]].attrs[tag_attr_pairs[r[1]][2]] # EmptyRef } }

\* collect_resource_urls is left by urljoin's exception
collect_resource_urls_raises(markup) == \E src \in CollectedRefs(markup) : urljoin_raises(src)

\* collect_resource_urls without urls.add(base_url)
collect_resource_urls_without_base(base_url, markup) ==
    {urljoin(base_url, src) : src \in CollectedRefs(markup)}

collect_resource_urls(base_url, markup) ==
    {base_url} \cup {urljoin(base_url, src) : src \in CollectedRefs(markup)}

\* k.lower() on the header names
LowerName(k) ==
    CASE k = "Content-Length" -> "content-length"
      [] k = "Cache-Control" -> "cache-control"
      [] OTHER -> k

\* {k.lower(): v for k, v in resp.headers.items()}
LowerKeys(h) ==
    [k \in {LowerName(n) : n \in DOMAIN h} |->
        h[CHOOSE n \in DOMAIN h : LowerName(n) = k]]

\* cl = headers.get("content-length"); int(cl) if cl, 0 on ValueError or no header
HeaderLength(headers) ==
    LET cl == Get(headers, "content-length", <<>>)
    IN  IF cl # <<>> /\ ParseInt(cl).ok THEN ParseInt(cl).val ELSE 0

Fetched(length, headers, exc) ==
    [raised |-> FALSE, length |-> length, headers |-> headers, exc |-> exc]

\* the GET fallback of fetch_resource_metadata, h1 being the HEAD's headers
GetFallback(srv, h1) ==
    IF ~srv.get.ok THEN Fetched(0, h1, "get")
    ELSE LET h2 == LowerKeys(srv.get.headers)
         IN  IF Get(h2, "content-length", <<>>) # <<>>
             THEN Fetched(HeaderLength(h2), h2, "none")
             ELSE IF ~srv.get.body.ok THEN Fetched(0, h2, "body")
             ELSE Fetched(srv.get.body.len, h2, "none")

\* fetch_resource_metadata with requests.head outside the try
fetch_resource_metadata_head_unguarded(srv) ==
    IF ~srv.head.ok
    THEN [raised |-> TRUE, length |-> 0, headers |-> EmptyMap, exc |-> "head"]
    ELSE LET h1 == LowerKeys(srv.head.headers)
         IN  IF HeaderLength(h1) # 0 THEN Fetched(HeaderLength(h1), h1, "none")
             ELSE GetFallback(srv, h1)

\* fetch_resource_metadata(url) against a server answering as srv: the length
\* and headers returned, whether an exception left the function (never: the
\* try covers the whole body) and where one was caught
fetch_resource_metadata(srv) ==
    IF ~srv.head.ok THEN Fetched(0, EmptyMap, "head")
    ELSE LET h1 == LowerKeys(srv.head.headers)
         IN  IF HeaderLength(h1) # 0 THEN Fetched(HeaderLength(h1), h1, "none")
             ELSE GetFallback(srv, h1)

RECURSIVE SumBytes(_)
SumBytes(rs) == IF rs = <<>> THEN 0 ELSE Head(rs).bytes + SumBytes(Tail(rs))

\* sum(r["bytes"] for r in resources if should_refetch_on_return(r["headers"]))
RECURSIVE SumRefetched(_)
SumRefetched(rs) ==
    IF rs = <<>> THEN 0
    ELSE (IF should_refetch_on_return(Head(rs).headers) THEN Head(rs).bytes ELSE 0)
         + SumRefetched(Tail(rs))

\* run_measurements_http without the safety floor
safety_floor_absent(first_bytes, second_bytes) == second_bytes

\* the safety floor: second_bytes < first_bytes * 0.1 and int(first_bytes * 0.1)
\* in floats give, for every first_bytes below 2^53, what 10 * second_bytes <
\* first_bytes and the integer quotient give
safety_floor(first_bytes, second_bytes) ==
    IF first_bytes > 0 /\ 10 * second_bytes < first_bytes
    THEN first_bytes \div 10
    ELSE second_bytes

\* the result record (mb, gb, energy_kwh and co2_g, computed from bytes alone,
\* are left out)
Result(mode, first_bytes, second_bytes) ==
    [model        |-> [mode |-> mode],
     first_visit  |-> [bytes |-> first_bytes],
     return_visit |-> [bytes |-> second_bytes]]

NoResult == Result("none", 0, 0)

-----------------------------------------------------------------------------
(* Browser sampler: the response observer *)

HttpUrl  == <<"h", "t", "t", "p", "s", ":", "/", "/", "s", "/", "a">>
DataUrl  == <<"d", "a", "t", "a", ":", "x">>
AboutUrl == <<"a", "b", "o", "u", "t", ":", "b">>

W_data  == <<"d", "a", "t", "a", ":">>
W_about == <<"a", "b", "o", "u", "t", ":">>

\* response.headers of the browser engine (names in lower case)
BrowserHeaders ==
    {EmptyMap}
    \cup {("content-length" :> l) : l \in {<<"7">>, <<"0">>, <<"-", "5">>, <<"x">>}}

\* a response event: reading response.request / req.url / response.headers
\* raises, or the response has a request URL, headers and a body read outcome
BrowserResponses ==
    {[broken |-> b, url |-> u, headers |-> h, body |-> d] :
        b \in {FALSE}, u \in {HttpUrl, DataUrl, AboutUrl}, h \in BrowserHeaders, d \in Bodies}
    \cup {[broken |-> TRUE, url |-> HttpUrl, headers |-> EmptyMap, body |-> BodyFails]}

\* what handle_response adds to total_bytes for one response
handle_response(response) ==
    IF response.broken THEN 0
    ELSE IF StartsWith(response.url, W_data) \/ StartsWith(response.url, W_about) THEN 0
    ELSE LET length == HeaderLength(response.headers)
         IN  IF length = 0
             THEN (IF response.body.ok THEN response.body.len ELSE 0)
             ELSE length

-----------------------------------------------------------------------------
(* The measurement run: run_measurements *)

Event(op, v) == <<op, v>>

\* an except clause that covers a failed launch only
run_measurements_catches_launch_only(step) == step = "launch"

\* the except clause of run_measurements: Exception covers what any step of
\* the browser sampler raises
run_measurements_catches(step) == TRUE

MeasurementVars ==
    <<pc, browser, context, pages, trace, visit, nresp, total_bytes, spec_total,
      visit_totals, pw_raised, html, resource_urls, pending, resources,
      last_fetch, results>>
PureVars == <<headers_in, refetch_out, co2_rounded, grades>>
HttpVars == <<html, resource_urls, pending, resources, last_fetch>>

\* the state before the call starting at position p
InitRun(p) ==
    /\ pc = p
    /\ browser = "none"
    /\ context = "none"
    /\ pages = <<"none", "none">>
    /\ trace = <<>>
    /\ visit = 0
    /\ nresp = 0
    /\ total_bytes = 0
    /\ spec_total = 0
    /\ visit_totals = <<>>
    /\ pw_raised = "no"
    /\ html = <<>>
    /\ resource_urls = {}
    /\ pending = {}
    /\ resources = <<>>
    /\ last_fetch = "none"
    /\ results = NoResult

InitPure ==
    /\ headers_in = EmptyMap
    /\ refetch_out = <<>>
    /\ co2_rounded = <<0, 0>>
    /\ grades = <<>>

\* run_measurements(url, headless) has just been called
Init == InitRun("call") /\ InitPure

\* an exception leaves run_measurements_playwright at `step`: launch_browser's
\* finally closes the browser if it was launched (context.close() and
\* page.close() are not reached), the frame's locals are gone, and
\* run_measurements' except clause starts the HTTP-only sampler
PwRaise(step) ==
    /\ browser' = IF browser = "open" THEN "closed" ELSE browser
    /\ trace' = IF browser = "open" THEN Append(trace, Event("browser.close", 0)) ELSE trace
    /\ pw_raised' = step
    /\ visit' = 0
    /\ nresp' = 0
    /\ total_bytes' = 0
    /\ spec_total' = 0
    /\ visit_totals' = <<>>
    /\ pc' = IF run_measurements_catches(step) THEN "http_start" ELSE "raised"
    /\ UNCHANGED <<context, pages, results>>

\* ensure_playwright_browsers_installed() (it returns True whatever the
\* install did), sync_playwright() and p.chromium.launch(headless=headless);
\* headless is passed on and decides nothing here
PwLaunch ==
    /\ pc = "call"
    /\ \/ /\ browser' = "open"
          /\ trace' = Append(trace, Event("launch", 0))
          /\ pc' = "new_context"
          /\ UNCHANGED <<context, pages, visit, nresp, total_bytes, spec_total,
                         visit_totals, pw_raised, results>>
       \/ PwRaise("launch")
    /\ UNCHANGED HttpVars
    /\ UNCHANGED PureVars

\* browser.new_context()
PwNewContext ==
    /\ pc = "new_context"
    /\ \/ /\ context' = "open"
          /\ trace' = Append(trace, Event("new_context", 0))
          /\ visit' = 1
          /\ pc' = "new_page"
          /\ UNCHANGED <<browser, pages, nresp, total_bytes, spec_total,
                         visit_totals, pw_raised, results>>
       \/ PwRaise("new_context")
    /\ UNCHANGED HttpVars
    /\ UNCHANGED PureVars

\* measure_visit_playwright: context.new_page(), total_bytes = 0, page.on(...)
PwNewPage ==
    /\ pc = "new_page"
    /\ \/ /\ pages' = [pages EXCEPT ![visit] = "open"]
          /\ trace' = Append(trace, Event("new_page", visit))
          /\ total_bytes' = 0
          /\ spec_total' = 0
          /\ nresp' = 0
          /\ pc' = "goto"
          /\ UNCHANGED <<browser, context, visit, visit_totals, pw_raised, results>>
       \/ PwRaise(IF visit = 1 THEN "first_visit" ELSE "second_visit")
    /\ UNCHANGED HttpVars
    /\ UNCHANGED PureVars

\* the per-response length as documented: 0 for data: and about: URLs,
\* else the content-length value if the header is present and parses,
\* else the body length, and 0 when the observer or the body read fails
DocumentedLength(response) ==
    IF response.broken THEN 0
    ELSE IF StartsWith(response.url, W_data) \/ StartsWith(response.url, W_about) THEN 0
    ELSE IF "content-length" \in DOMAIN response.headers
            /\ ParseInt(response.headers["content-length"]).ok
         THEN ParseInt(response.headers["content-length"]).val
    ELSE IF response.body.ok THEN response.body.len
    ELSE 0

\* one response event, during page.goto or page.wait_for_timeout: the whole
\* of handle_response
PwResponse ==
    /\ pc \in {"goto", "wait"}
    /\ nresp < MaxResponses
    /\ \E response \in BrowserResponses :
          /\ total_bytes' = total_bytes + handle_response(response)
          /\ spec_total' = spec_total + DocumentedLength(response)
    /\ nresp' = nresp + 1
    /\ UNCHANGED <<pc, browser, context, pages, trace, visit, visit_totals, pw_raised, results>>
    /\ UNCHANGED HttpVars
    /\ UNCHANGED PureVars

\* page.goto(url, wait_until, timeout) returns, or raises (navigation error,
\* timeout)
PwGoto ==
    /\ pc = "goto"
    /\ \/ /\ trace' = Append(trace, Event("goto", visit))
          /\ pc' = "wait"
          /\ UNCHANGED <<browser, context, pages, visit, nresp, total_bytes, spec_total,
                         visit_totals, pw_raised, results>>
       \/ PwRaise(IF visit = 1 THEN "first_visit" ELSE "second_visit")
    /\ UNCHANGED HttpVars
    /\ UNCHANGED PureVars

\* PwFinishVisit without page.close()
PwFinishVisit_page_left_open ==
    /\ pc = "wait"
    /\ \/ /\ trace' = trace
          /\ visit_totals' = Append(visit_totals, total_bytes)
          /\ visit' = IF visit = 1 THEN 2 ELSE 0
          /\ pc' = IF visit = 1 THEN "new_page" ELSE "close_context"
          /\ UNCHANGED <<browser, context, pages, nresp, total_bytes, spec_total,
                         pw_raised, results>>
       \/ PwRaise(IF visit = 1 THEN "first_visit" ELSE "second_visit")
    /\ UNCHANGED HttpVars
    /\ UNCHANGED PureVars

\* page.wait_for_timeout(2000); page.close(); return total_bytes -- and the
\* caller goes on to the second visit, or to context.close(); or one of the
\* two page calls raises
PwFinishVisit ==
    /\ pc = "wait"
    /\ \/ /\ pages' = [pages EXCEPT ![visit] = "closed"]
          /\ trace' = Append(trace, Event("page.close", visit))
          /\ visit_totals' = Append(visit_totals, total_bytes)
          /\ visit' = IF visit = 1 THEN 2 ELSE 0
          /\ pc' = IF visit = 1 THEN "new_page" ELSE "close_context"
          /\ UNCHANGED <<browser, context, nresp, total_bytes, spec_total, pw_raised, results>>
       \/ PwRaise(IF visit = 1 THEN "first_visit" ELSE "second_visit")
    /\ UNCHANGED HttpVars
    /\ UNCHANGED PureVars

\* context.close() returns, or raises
PwCloseContext ==
    /\ pc = "close_context"
    /\ \/ /\ context' = "closed"
          /\ trace' = Append(trace, Event("context.close", 0))
          /\ pc' = "close_browser"
          /\ UNCHANGED <<browser, pages, visit, nresp, total_bytes, spec_total,
                         visit_totals, pw_raised, results>>
       \/ PwRaise("context_close")
    /\ UNCHANGED HttpVars
    /\ UNCHANGED PureVars

\* leaving the with block: browser.close(); then the result record is built
\* and run_measurements returns it
PwCloseBrowserAndReturn ==
    /\ pc = "close_browser"
    /\ browser' = "closed"
    /\ trace' = Append(trace, Event("browser.close", 0))
    /\ results' = Result("playwright", visit_totals[1], visit_totals[2])
    /\ pc' = "returned"
    /\ UNCHANGED <<context, pages, visit, nresp, total_bytes, spec_total, visit_totals,
                   pw_raised>>
    /\ UNCHANGED HttpVars
    /\ UNCHANGED PureVars

BrowserVars ==
    <<browser, context, pages, trace, visit, nresp, total_bytes, spec_total,
      visit_totals, pw_raised>>

\* run_measurements_http: requests.get(url, timeout=20), resp.text and
\* collect_resource_urls; a failed GET is re-raised to the caller, and so is
\* what collect_resource_urls raises. The document is one of docs.
HttpFetchDocument(docs) ==
    /\ pc = "http_start"
    /\ trace' = Append(trace, Event("requests.get", 0))
    /\ \/ \E markup \in docs :
             /\ html' = markup
             /\ IF collect_resource_urls_raises(markup)
                THEN /\ pc' = "raised"
                     /\ UNCHANGED <<resource_urls, pending>>
                ELSE /\ resource_urls' = collect_resource_urls(PageUrl, markup)
                     /\ pending' = collect_resource_urls(PageUrl, markup)
                     /\ pc' = "http_loop"
       \/ /\ pc' = "raised"
          /\ UNCHANGED <<html, resource_urls, pending>>
    /\ UNCHANGED <<resources, last_fetch, results>>
    /\ UNCHANGED <<browser, context, pages, visit, nresp, total_bytes, spec_total,
                   visit_totals, pw_raised>>
    /\ UNCHANGED PureVars

\* one iteration of the loop over resource_urls (a set: any order); got is
\* what fetch_resource_metadata(res_url) gives for some answer of the server
HttpFetchResource(outcomes) ==
    /\ pc = "http_loop"
    /\ \E res_url \in pending, got \in outcomes :
          IF got.raised
          THEN /\ pc' = "raised"
               /\ last_fetch' = got.exc
               /\ UNCHANGED <<pending, resources>>
          ELSE /\ resources' = Append(resources,
                                 [url |-> res_url, bytes |-> got.length,
                                  headers |-> got.headers])
               /\ pending' = pending \ {res_url}
               /\ last_fetch' = got.exc
               /\ pc' = "http_loop"
    /\ UNCHANGED <<html, resource_urls, results>>
    /\ UNCHANGED BrowserVars
    /\ UNCHANGED PureVars

\* after the loop: the two sums, the safety floor, the result record
HttpTotals ==
    /\ pc = "http_loop"
    /\ pending = {}
    /\ results' = Result("http-only", SumBytes(resources),
                         safety_floor(SumBytes(resources), SumRefetched(resources)))
    /\ pc' = "returned"
    /\ UNCHANGED <<html, resource_urls, pending, resources, last_fetch>>
    /\ UNCHANGED BrowserVars
    /\ UNCHANGED PureVars

\* what fetch_resource_metadata returns over all the answers of the server
FetchOutcomes == {fetch_resource_metadata(srv) : srv \in ServerBehaviours}

\* the fallback of a run_measurements call meets a smaller world: a document
\* with no asset, one asset or a malformed reference, and a server that fails the HEAD, gives a length in
\* the HEAD, or gives no length and a body on the GET
FallbackDocuments ==
    {<<>>, << Element("img", "src" :> RelA) >>, << Element("link", "href" :> BadRef) >>}

FallbackBehaviours ==
    {[head |-> hd, get |-> gt] :
        hd \in {RequestFails,
                [ok |-> TRUE, headers |-> ("Content-Length" :> <<"1", "5">>), body |-> BodyFails],
                [ok |-> TRUE, headers |-> EmptyMap, body |-> BodyFails]},
        gt \in {RequestFails, [ok |-> TRUE, headers |-> EmptyMap, body |-> Body(3)]}}

FallbackOutcomes == {fetch_resource_metadata(srv) : srv \in FallbackBehaviours}

Next ==
    \/ PwLaunch
    \/ PwNewContext
    \/ PwNewPage
    \/ PwResponse
    \/ PwGoto
    \/ PwFinishVisit
    \/ PwCloseContext
    \/ PwCloseBrowserAndReturn
    \/ HttpFetchDocument(FallbackDocuments)
    \/ HttpFetchResource(FallbackOutcomes)
    \/ HttpTotals

Spec == Init /\ [][Next]_vars

\* run_measurements_http(url) called on its own
InitHttp == InitRun("http_start") /\ InitPure

NextHttp ==
    \/ HttpFetchDocument(Documents)
    \/ HttpFetchResource(FetchOutcomes)
    \/ HttpTotals

SpecHttp == InitHttp /\ [][NextHttp]_vars

-----------------------------------------------------------------------------
(* The pure functions on their own *)

\* should_refetch_on_return is about to be called on some header map
InitRefetch ==
    /\ InitRun("none")
    /\ headers_in \in HeaderInputs
    /\ refetch_out = <<>>
    /\ co2_rounded = <<0, 0>>
    /\ grades = <<>>

ApplyRefetch ==
    /\ refetch_out = <<>>
    /\ refetch_out' = <<should_refetch_on_return(headers_in)>>
    /\ UNCHANGED <<headers_in, co2_rounded, grades>>
    /\ UNCHANGED MeasurementVars

NextRefetch == ApplyRefetch

SpecRefetch == InitRefetch /\ [][NextRefetch]_vars

\* the UI has rounded the two CO2 values to 2 decimals and is about to grade
InitGrade ==
    /\ InitRun("none")
    /\ headers_in = EmptyMap
    /\ refetch_out = <<>>
    /\ co2_rounded \in (0..MaxHundredths) \X (0..MaxHundredths)
    /\ grades = <<>>

\* fv_grade = grade_from_co2(fv_co2_rounded); rv_grade = grade_from_co2(rv_co2_rounded)
ApplyGrade ==
    /\ grades = <<>>
    /\ grades' = <<grade_from_co2(co2_rounded[1]), grade_from_co2(co2_rounded[2])>>
    /\ UNCHANGED <<headers_in, refetch_out, co2_rounded>>
    /\ UNCHANGED MeasurementVars

NextGrade == ApplyGrade

SpecGrade == InitGrade /\ [][NextGrade]_vars

-----------------------------------------------------------------------------
(* Properties *)

Range(f) == {f[i] : i \in DOMAIN f}

\* position in trace of the call op of visit v, 0 if it was not made
Idx(op, v) ==
    IF Event(op, v) \in Range(trace)
    THEN CHOOSE i \in DOMAIN trace : trace[i] = Event(op, v)
    ELSE 0

Calls(op) == Cardinality({i \in DOMAIN trace : trace[i][1] = op})

\* run_measurements_playwright has been left, by return or by exception
PwExited == pc \in {"http_start", "http_loop", "returned", "raised"}

HttpCalled == Event("requests.get", 0) \in Range(trace)

RECURSIVE SumOver(_, _)
\* the sum of f[x] over the x of a finite set
SumOver(S, f) ==
    IF S = {} THEN 0
    ELSE LET x == CHOOSE y \in S : TRUE IN f[x] + SumOver(S \ {x}, f)

\* C1: a browser sampler that completes gives the result, in mode
\* "playwright", with the two visit totals; a browser sampler that raises at
\* any step makes the HTTP-only sampler run, and the result is the HTTP-only
\* sampler's, in mode "http-only", with its own two byte totals; when the
\* HTTP-only sampler raises too, the caller gets the exception and no result.
C1_FallbackContract ==
    /\ (pc = "returned" /\ pw_raised = "no") =>
          /\ ~HttpCalled
          /\ Len(visit_totals) = 2
          /\ results = Result("playwright", visit_totals[1], visit_totals[2])
    /\ (pc = "returned" /\ pw_raised # "no") =>
          /\ HttpCalled
          /\ results.model.mode = "http-only"
          /\ results.first_visit.bytes =
                SumOver(DOMAIN resources, [i \in DOMAIN resources |-> resources[i].bytes])
          /\ results.return_visit.bytes =
                safety_floor(results.first_visit.bytes, SumRefetched(resources))
    /\ pc = "raised" => (pw_raised # "no" /\ HttpCalled /\ results = NoResult)
    /\ pw_raised # "no" => pc \in {"http_start", "http_loop", "returned", "raised"}
    /\ pc \notin {"returned"} => results = NoResult

\* the second visit failed, the fallback ran and its result came back
C1_Witness ==
    /\ pc = "returned"
    /\ pw_raised = "second_visit"
    /\ results.model.mode = "http-only"
    /\ results.first_visit.bytes = 18

\* C2: whenever run_measurements_playwright has returned or raised, every
\* browser launched and every context created has been closed.
C2_BrowserAndContextClosedOnExit ==
    PwExited => (browser # "open" /\ context # "open")

\* C3: in every result record returned, first_visit.bytes >= 0 and
\* return_visit.bytes >= 0, whatever the content-length values, the body
\* lengths and the failures were.
C3_BytesNonNegative ==
    pc = "returned" =>
        (results.first_visit.bytes >= 0 /\ results.return_visit.bytes >= 0)

\* C4: once the document is fetched, an exception while fetching one
\* resource gives that resource length 0 and never aborts the run: the run
\* cannot raise any more, no answer of the server makes the next fetch raise
\* or gives a failed fetch a length other than 0, and a fetch only appends
\* its own record, leaving the records of the other resources as they are.
C4_ResourceFailureIsolated ==
    /\ [](pc = "raised" => (resource_urls = {} /\ last_fetch = "none"))
    /\ []((last_fetch # "none" /\ resources # <<>>) =>
            resources[Len(resources)].bytes = 0)
    /\ [](pc = "http_loop" /\ pending # {} =>
            \A got \in FetchOutcomes :
                ~got.raised /\ (got.exc # "none" => got.length = 0))
    /\ [][pc = "http_loop" =>
            /\ Len(resources') >= Len(resources)
            /\ SubSeq(resources', 1, Len(resources)) = resources]_vars
    /\ [](pc = "returned" /\ HttpCalled =>
            results.first_visit.bytes =
                SumOver(DOMAIN resources, [i \in DOMAIN resources |-> resources[i].bytes]))

\* the GET for the last of three resources failed; the run returned and the
\* other two resources still count
C4_Witness ==
    /\ pc = "returned"
    /\ last_fetch = "get"
    /\ Len(resources) = 3
    /\ resources[3].bytes = 0
    /\ results.first_visit.bytes = 30

\* the condition under which C5 says a resource counts as cached: none of
\* the four tokens in cache-control, no no-cache in pragma, and the first
\* max-age=<value> part of the comma-split cache-control has an integer
\* value of at least 86400
SpecifiedCached(headers) ==
    LET cc     == Lower(Get(headers, "cache-control", <<>>))
        pragma == Lower(Get(headers, "pragma", <<>>))
        parts  == Split(cc, ",")
        tokens == SelectSeq([i \in DOMAIN parts |-> Strip(parts[i])],
                            LAMBDA part : StartsWith(part, W_max_age \o <<"=">>))
        value  == SubSeq(tokens[1], Len(W_max_age) + 2, Len(tokens[1]))
    IN  /\ \A token \in {W_no_cache, W_no_store, W_must_revalidate, W_max_age_0} :
              ~Contains(cc, token)
        /\ ~Contains(pragma, W_no_cache)
        /\ tokens # <<>>
        /\ ParseInt(value).ok
        /\ ParseInt(value).val >= 86400

\* C5: should_refetch_on_return(headers) is false if and only if
\* cache-control contains none of no-cache, no-store, must-revalidate and
\* max-age=0, pragma does not contain no-cache, and the first max-age=<int>
\* token of the comma-split cache-control parses to an integer >= 86400.
C5_RefetchIffNoLongMaxAge ==
    refetch_out # <<>> => ((refetch_out[1] = FALSE) <=> SpecifiedCached(headers_in))

\* C6: with first_visit.bytes > 0, return_visit.bytes is at least a tenth
\* of first_visit.bytes: 10 * return_visit.bytes >= first_visit.bytes.
C6_ReturnAtLeastTenth ==
    (pc = "returned" /\ results.first_visit.bytes > 0) =>
        10 * results.return_visit.bytes >= results.first_visit.bytes

\* C6 (amended): with first_visit.bytes > 0, return_visit.bytes is at least
\* a tenth of first_visit.bytes rounded down to a whole number of bytes:
\* 10 * return_visit.bytes > first_visit.bytes - 10.
C6_ReturnAtLeastTruncatedTenth ==
    (pc = "returned" /\ results.first_visit.bytes > 0) =>
        10 * results.return_visit.bytes > results.first_visit.bytes - 10

\* one cacheable 15-byte document: the floor lifts 0 to int(1.5) = 1
C6_Witness ==
    /\ pc = "returned"
    /\ results.first_visit.bytes = 15
    /\ SumRefetched(resources) = 0
    /\ results.return_visit.bytes = 1

\* the URLs C7 counts: the document's own, and every non-empty img/src,
\* script/src, link/href, video/src and source/src of the document,
\* resolved against the document's URL
DiscoveredUrls(markup) ==
    {PageUrl} \cup
    { u \in {urljoin(PageUrl, r) : r \in {RelA, AbsA, AbsB, RelSelf, RelC}} :
        \E i \in DOMAIN markup :
            \E a \in DOMAIN markup[i].attrs :
                /\ <<markup[i].tag, a>> \in
                      {<<"img", "src">>, <<"script", "src">>, <<"link", "href">>,
                       <<"video", "src">>, <<"source", "src">>}
                /\ markup[i].attrs[a] # EmptyRef
                /\ urljoin(PageUrl, markup[i].attrs[a]) = u }

\* C7: first_bytes is the sum of the lengths of the distinct discovered
\* URLs, each counted once, the document's URL among them; second_bytes is
\* the sum over the resources the heuristic says are refetched, unless that
\* sum is below 10% of first_bytes; with every resource refetched,
\* second_bytes = first_bytes.
C7_ExactSums ==
    (pc = "returned" /\ HttpCalled) =>
        LET n       == DOMAIN resources
            bytes   == [i \in n |-> resources[i].bytes]
            again   == {i \in n : should_refetch_on_return(resources[i].headers)}
            first   == results.first_visit.bytes
            second  == results.return_visit.bytes
        IN  /\ {resources[i].url : i \in n} = DiscoveredUrls(html)
            /\ Len(resources) = Cardinality(DiscoveredUrls(html))
            /\ first = SumOver(n, bytes)
            /\ second # SumOver(again, bytes) => 10 * SumOver(again, bytes) < first
            /\ again = n => second = first

\* a document naming one asset twice and another once, all three resources
\* (the document included) refetched: second_bytes = first_bytes = 33
C7_Witness ==
    /\ pc = "returned"
    /\ Len(html) = 4
    /\ Len(resources) = 3
    /\ \A i \in DOMAIN resources : should_refetch_on_return(resources[i].headers)
    /\ results.first_visit.bytes = 33
    /\ results.return_visit.bytes = 33

\* C8: one browser is launched and one context created; the pages of both
\* visits are opened in that context while it is open; the second visit's
\* page is opened only after the first visit's page is closed; the context
\* is closed only after the second visit has finished, and the browser after
\* the context; if the first visit raises, no second visit is started.
C8_VisitOrdering ==
    /\ Calls("launch") <= 1 /\ Calls("new_context") <= 1
    /\ results.model.mode = "playwright" =>
          (Calls("launch") = 1 /\ Calls("new_context") = 1 /\ Calls("new_page") = 2)
    /\ \A i \in DOMAIN trace : trace[i][1] = "new_page" =>
          /\ Idx("new_context", 0) # 0 /\ Idx("new_context", 0) < i
          /\ Idx("context.close", 0) = 0 \/ i < Idx("context.close", 0)
    /\ Idx("new_page", 2) # 0 =>
          (Idx("page.close", 1) # 0 /\ Idx("page.close", 1) < Idx("new_page", 2))
    /\ pages[2] # "none" => pages[1] = "closed"
    /\ Idx("context.close", 0) # 0 =>
          (Idx("page.close", 2) # 0 /\ Idx("page.close", 2) < Idx("context.close", 0))
    /\ (Idx("context.close", 0) # 0 /\ Idx("browser.close", 0) # 0) =>
          Idx("context.close", 0) < Idx("browser.close", 0)
    /\ results.model.mode = "playwright" =>
          (Idx("context.close", 0) # 0 /\ Idx("browser.close", 0) # 0)
    /\ pw_raised = "first_visit" => (Idx("new_page", 2) = 0 /\ pages[2] = "none")

\* a full browser run: two visits, context closed, browser closed, result
C8_Witness ==
    /\ pc = "returned"
    /\ results.model.mode = "playwright"
    /\ trace = << Event("launch", 0), Event("new_context", 0),
                  Event("new_page", 1), Event("goto", 1), Event("page.close", 1),
                  Event("new_page", 2), Event("goto", 2), Event("page.close", 2),
                  Event("context.close", 0), Event("browser.close", 0) >>

\* the grade C9 gives a value x in hundredths of a gram
Rank(grade) ==
    CASE grade = "A" -> 0 [] grade = "B" -> 1 [] grade = "C" -> 2
      [] grade = "D" -> 3 [] grade = "F" -> 4

\* C9: on CO2 values >= 0 in hundredths of a gram, exactly one grade
\* applies: A for x <= 0.20, B for 0.20 < x <= 0.70, C for 0.70 < x <= 1.10,
\* D for 1.10 < x <= 1.60, F for x > 1.60; for x <= y the grade of y is
\* never better than the grade of x; 0.20 -> A, 0.21 -> B, 1.61 -> F.
C9_GradeBands ==
    grades # <<>> =>
        /\ \A i \in 1..2 :
              LET x == co2_rounded[i]
                  g == grades[i]
              IN  /\ g \in {"A", "B", "C", "D", "F"}
                  /\ (g = "A") <=> (x <= 20)
                  /\ (g = "B") <=> (20 < x /\ x <= 70)
                  /\ (g = "C") <=> (70 < x /\ x <= 110)
                  /\ (g = "D") <=> (110 < x /\ x <= 160)
                  /\ (g = "F") <=> (x > 160)
                  /\ x = 20 => g = "A"
                  /\ x = 21 => g = "B"
                  /\ x = 161 => g = "F"
        /\ co2_rounded[1] <= co2_rounded[2] => Rank(grades[1]) <= Rank(grades[2])
        /\ co2_rounded[2] <= co2_rounded[1] => Rank(grades[2]) <= Rank(grades[1])

\* the first visit at 0.20 g is graded A, the return visit at 1.61 g F
C9_Witness ==
    /\ co2_rounded = <<20, 161>>
    /\ grades = <<"A", "F">>

\* C10: the total measure_visit_playwright returns is the sum of the
\* documented per-response lengths of the responses observed in the visit.
C10_TotalIsSumOfDocumentedLengths ==
    (visit_totals # <<>> /\ pc \in {"new_page", "close_context"}) =>
        visit_totals[Len(visit_totals)] = spec_total

====
